---- MODULE Spec2Model ----
(***************************************************************************)
(* Marketplace backend of src/index.js: Google login, seller onboarding    *)
(* and product CRUD over three MongoDB collections.                        *)
(*                                                                         *)
(* src/index.js holds two revisions of the server that both have the       *)
(* seller and product routes:                                              *)
(*   revision 1  lines   1-370  (token carries the id only; a product      *)
(*                               stores the user's id as sellerId)         *)
(*   revision 2  lines 372-795  (token carries id and role; a product      *)
(*                               stores the Seller's id as sellerId)       *)
(* The variable rev says which one runs; it never changes.                 *)
(*                                                                         *)
(* Every handler is async: each `await` on the store is a point where      *)
(* other requests run.  One action is one stretch of a handler from one    *)
(* store access to the next, taken atomically at the moment the store      *)
(* serves the access.  A request's inputs (body, :id) are parameters of    *)
(* the stretch that first reads them.                                      *)
(***************************************************************************)
EXTENDS Integers, Sequences, FiniteSets, Bags, TLC

VARIABLES
    rev,          \* revision of the server that is running (1 or 2)
    OAuthUsers,   \* collection "OAuthUsers": set of User documents
    Sellers,      \* collection "Sellers": set of Seller documents
    AllProducts,  \* collection "AllProducts": set of Product documents
    nextPid,      \* number of Product documents created so far
    issued,       \* payloads signed with JWT_SECRET (credentials in circulation)
    cloudinary,   \* image URLs multer has stored on Cloudinary
    reqs,         \* requests in flight: bag of the handlers' locals
    res           \* response written by the last step, NoResponse if none

vars == <<rev, OAuthUsers, Sellers, AllProducts, nextPid, issued, cloudinary, reqs, res>>

stores == <<OAuthUsers, Sellers, AllProducts>>

-----------------------------------------------------------------------------
(* Bounds of the model *)

MaxUsers == 2       \* User.create calls
MaxSellers == 2     \* Seller.create calls
MaxProducts == 1    \* Product.create calls

-----------------------------------------------------------------------------
(* Values *)

Undefined == "undefined"
Null == "null"

\* ObjectIds are opaque and unique.  A fresh id is named
\* <<collection, key, k, n>> after the document it is made for, so that
\* runs that differ only in the order of creation reach the same state:
\*   the k-th user with googleId g is <<"U", g, k, 0>>,
\*   the n-th seller of that user is  <<"S", g, k, n>>,
\*   the n-th product created is      <<"P", "", 0, n>> (ids grow with time).
NoId == <<"none", "", 0, 0>>
BadId == <<"bad", "", 0, 0>>              \* a :id that is not an ObjectId string
RemovedUserId == <<"U", "gone", 0, 0>>    \* user no longer in the external store

ProductId(n) == <<"P", "", 0, n>>

GoogleIds == {"g1", "g2"}
displayName(g) == IF g = "g1" THEN "Asha" ELSE "Bala"
emailOf(g) == IF g = "g1" THEN "asha@mail" ELSE "bala@mail"

ImagePath == "https://res.cloudinary.com/shops/img"


-----------------------------------------------------------------------------
(* Credentials: the `token` cookie *)

\* What a request carries as req.cookies.token.  sig is the key the token was
\* signed with, exp whether its 1d lifetime has run out.
NoCookie == [id |-> NoId, role |-> Undefined, sig |-> "none", exp |-> FALSE]
Malformed == [id |-> NoId, role |-> Undefined, sig |-> "malformed", exp |-> FALSE]

\* jwt.sign(payload, process.env.JWT_SECRET, {expiresIn: "1d"})
jwtSign(user) ==
    [id |-> user.id, role |-> IF rev = 2 THEN user.role ELSE Undefined]

\* Whether jwt.verify(token, process.env.JWT_SECRET) returns (else it throws).
jwtVerify(c) == c.sig = "JWT_SECRET" /\ ~c.exp

\* The cookies a client can send: none, a token the server issued (fresh or
\* expired), the payload of an issued token re-signed with another key and
\* claiming role seller, or garbage.
Cookies ==
    {NoCookie, Malformed}
    \cup {[id |-> p.id, role |-> p.role, sig |-> "JWT_SECRET", exp |-> e] :
              p \in issued, e \in BOOLEAN}
    \cup {[id |-> p.id, role |-> "seller", sig |-> "attacker", exp |-> FALSE] :
              p \in issued}

\* How the credential of a request is classified in the response record.
CredOf(c) ==
    IF c = NoCookie THEN "none"
    ELSE IF jwtVerify(c) THEN "valid"
    ELSE "invalid"

-----------------------------------------------------------------------------
(* Store queries *)

\* User.findById(id): the matching documents (none or one)
UserById(id) == {u \in OAuthUsers : u.id = id}
\* User.findOne({googleId})
UsersByGoogleId(g) == {u \in OAuthUsers : u.googleId = g}
\* Seller.findOne({userId}): the candidates; with no sort the store may return
\* any matching document
SellersByUser(uid) == {s \in Sellers : s.userId = uid}
\* Product.findById(id)
ProductById(pid) == {p \in AllProducts : p.id = pid}

-----------------------------------------------------------------------------
(* Requests and responses *)

NoPatch ==
    [brand |-> Undefined, model |-> Undefined, productType |-> Undefined,
     color |-> Undefined, storage |-> Undefined, ram |-> Undefined,
     price |-> Undefined, image |-> Undefined]

\* Locals of a handler between two awaits.
\* req.body of the product routes: every field is a string or absent.
EmptyBody ==
    [brand |-> Undefined, model |-> Undefined, productType |-> Undefined,
     color |-> Undefined, storage |-> Undefined, ram |-> Undefined,
     price |-> Undefined]

Idle ==
    [op |-> "idle", pc |-> "idle", profile |-> Undefined, file |-> FALSE,
     userId |-> NoId, sellerId |-> NoId, pid |-> NoId, body |-> EmptyBody,
     patch |-> NoPatch]

NoResponse ==
    [op |-> "none", status |-> 0, cred |-> "none", userId |-> NoId,
     sellerId |-> NoId, pid |-> NoId, tokenRole |-> Undefined,
     userRole |-> Undefined, products |-> <<>>, doc |-> NoId]

\* res.status(status).json(...) of route op.  Besides what is sent, the
\* record keeps what the request was: the class of its credential, the user
\* and seller the handler resolved, the :id, and for the listing the role
\* in the token.
Response(op, status, cred, userId) ==
    [NoResponse EXCEPT !.op = op, !.status = status, !.cred = cred,
                       !.userId = userId]

InFlight == BagToSet(reqs)

\* The model follows two requests at a time: a third one is taken up when
\* one of them has been answered.
HasRoom == BagCardinality(reqs) <= 1

\* A request is taken up and awaits its first continuation.
Enter(r) == reqs' = reqs (+) SetToBag({r}) /\ res' = NoResponse
\* The handler s awaits its next store access with locals r.
Await(s, r) == reqs' = (reqs (-) SetToBag({s})) (+) SetToBag({r}) /\ res' = NoResponse
\* The handler s answers and ends.
Answer(s, response) == reqs' = reqs (-) SetToBag({s}) /\ res' = response

\* Node runs one stretch at a time and res.json() writes the response before
\* the event loop takes the next event: no stretch starts while a response
\* is being written.
Ready == res = NoResponse

At(s, op, pc) == Ready /\ s \in InFlight /\ s.op = op /\ s.pc = pc

\* multer's upload.single(field): a file sent with the request is stored on
\* Cloudinary before the route handler runs.
upload(file) == cloudinary' = IF file THEN cloudinary \cup {ImagePath} ELSE cloudinary

-----------------------------------------------------------------------------
(* Initial state: empty collections.  The store is external and JWT_SECRET   *)
(* comes from the environment, so a credential signed earlier for a user     *)
(* that is no longer in the store is in circulation.                         *)

InitRev(r) ==
    /\ rev = r
    /\ OAuthUsers = {}
    /\ Sellers = {}
    /\ AllProducts = {}
    /\ nextPid = 0
    /\ issued = {[id |-> RemovedUserId, role |-> IF r = 2 THEN "customer" ELSE Undefined]}
    /\ cloudinary = {}
    /\ reqs = EmptyBag
    /\ res = NoResponse

Init == InitRev(2)

-----------------------------------------------------------------------------
(* GET /auth/google/callback: GoogleStrategy verify callback, then the route *)

\* User.findOne({googleId: profile.id}).  An existing user is handed to the
\* route, which signs the token, sets the cookie and redirects; otherwise
\* the strategy goes on to User.create.
Login(g) ==
    /\ Ready
    /\ HasRoom
    /\ UNCHANGED <<rev, stores, nextPid, cloudinary>>
    /\ IF UsersByGoogleId(g) # {}
       THEN \E u \in UsersByGoogleId(g) :
              /\ issued' = issued \cup {jwtSign(u)}
              /\ reqs' = reqs
              /\ res' = [Response("login", 302, "none", u.id) EXCEPT
                            !.userRole = jwtSign(u).role]
       ELSE /\ issued' = issued
            /\ Enter([Idle EXCEPT !.op = "login", !.pc = "create",
                                            !.profile = g])

\* User.create({googleId, name, email, picture, role: "customer"}), then the
\* route signs the token for the new user.
LoginCreate(s) ==
    /\ At(s, "login", "create")
    /\ Cardinality(OAuthUsers) < MaxUsers
    /\ LET g == s.profile
           newUser == [id |-> <<"U", g, Cardinality(UsersByGoogleId(g)) + 1, 0>>,
                       googleId |-> g,
                       name |-> displayName(g), email |-> emailOf(g),
                       role |-> "customer"]
       IN /\ OAuthUsers' = OAuthUsers \cup {newUser}
          /\ issued' = issued \cup {jwtSign(newUser)}
          /\ Answer(s, [Response("login", 302, "none", newUser.id) EXCEPT
                           !.userRole = jwtSign(newUser).role])
    /\ UNCHANGED <<rev, Sellers, AllProducts, nextPid, cloudinary>>

\* POST /logout: clears the cookie at the client; the token stays valid.
Logout ==
    /\ Ready
    /\ HasRoom
    /\ res' = Response("logout", 200, "none", NoId)
    /\ UNCHANGED <<rev, stores, nextPid, issued, cloudinary, reqs>>

-----------------------------------------------------------------------------
(* GET /profile *)

Profile(c) ==
    /\ Ready
    /\ HasRoom
    /\ UNCHANGED <<rev, stores, nextPid, issued, cloudinary, reqs>>
    /\ IF c = NoCookie THEN res' = Response("profile", 401, CredOf(c), NoId)
       ELSE IF ~jwtVerify(c) THEN res' = Response("profile", 401, CredOf(c), NoId)
       ELSE \* res.json({ user }): user is null when findById finds nothing
            res' = [Response("profile", 200, CredOf(c), c.id) EXCEPT
                       !.doc = IF UserById(c.id) = {} THEN NoId ELSE c.id]

-----------------------------------------------------------------------------
(* POST /seller/register *)

\* req.body of the route: a complete form, and one without the shop name
ShopForm == [shopName |-> "Asha Mobiles", shopType |-> "mobile", shopLocation |-> "Pune"]
RegisterBodies ==
    {ShopForm, [ShopForm EXCEPT !.shopName = Undefined, !.shopLocation = Undefined]}

\* upload.single("shopPhoto"), then the handler up to User.findById
Register(c, file) ==
    /\ Ready
    /\ HasRoom
    /\ upload(file)
    /\ UNCHANGED <<rev, stores, nextPid, issued>>
    /\ IF c = NoCookie
       THEN reqs' = reqs /\ res' = Response("register", 401, CredOf(c), NoId)
       ELSE IF ~jwtVerify(c)
       THEN reqs' = reqs /\ res' = Response("register", 500, CredOf(c), NoId)
       ELSE IF UserById(c.id) = {}
       THEN reqs' = reqs /\ res' = Response("register", 404, CredOf(c), c.id)
       ELSE Enter([Idle EXCEPT !.op = "register", !.pc = "findSeller",
                                         !.file = file, !.userId = c.id])

\* Seller.findOne({userId: user._id}); if (existingSeller) 400
\* Variant: the check asks for the promoted role instead of the Seller record.
RegisterFindSellerByRole(s) ==
    /\ At(s, "register", "findSeller")
    /\ UNCHANGED <<rev, stores, nextPid, issued, cloudinary>>
    /\ IF \E u \in UserById(s.userId) : u.role = "seller"
       THEN Answer(s, Response("register", 400, "valid", s.userId))
       ELSE Await(s, [s EXCEPT !.pc = "create"])

RegisterFindSeller(s) ==
    /\ At(s, "register", "findSeller")
    /\ UNCHANGED <<rev, stores, nextPid, issued, cloudinary>>
    /\ IF SellersByUser(s.userId) # {}
       THEN Answer(s, Response("register", 400, "valid", s.userId))
       ELSE Await(s, [s EXCEPT !.pc = "create"])

\* Seller.create({...}): shopName and shopType are required by the schema,
\* a missing one makes create throw and the catch answers 500.
RegisterCreate(s, body) ==
    /\ At(s, "register", "create")
    /\ UNCHANGED <<rev, OAuthUsers, AllProducts, nextPid, issued, cloudinary>>
    /\   IF body.shopName = Undefined \/ body.shopType = Undefined
         THEN /\ Sellers' = Sellers
              /\ Answer(s, Response("register", 500, "valid", s.userId))
         ELSE /\ Cardinality(Sellers) < MaxSellers
              /\ \E user \in {u \in OAuthUsers : u.id = s.userId} :
                   LET newSeller ==
                         [id |-> <<"S", user.id[2], user.id[3],
                                   Cardinality(SellersByUser(user.id)) + 1>>,
                          userId |-> user.id, name |-> user.name,
                          email |-> user.email, shopName |-> body.shopName,
                          shopType |-> body.shopType,
                          shopPhoto |-> IF s.file THEN ImagePath ELSE Null,
                          shopLocation |-> body.shopLocation]
                   IN /\ Sellers' = Sellers \cup {newSeller}
                      /\ Await(s, [s EXCEPT !.pc = "save",
                                                  !.sellerId = newSeller.id])

\* user.role = "seller"; await user.save(); res.json({message, seller})
RegisterSave(s) ==
    /\ At(s, "register", "save")
    /\ OAuthUsers' = {IF u.id = s.userId THEN [u EXCEPT !.role = "seller"] ELSE u :
                         u \in OAuthUsers}
    /\ Answer(s, [Response("register", 200, "valid", s.userId) EXCEPT
                     !.sellerId = s.sellerId, !.doc = s.sellerId])
    /\ UNCHANGED <<rev, Sellers, AllProducts, nextPid, issued, cloudinary>>

-----------------------------------------------------------------------------
(* The seller gate shared by the seller-scoped routes:                      *)
(*   if (!token) 401; jwt.verify (throws -> catch -> 500);                  *)
(*   user = await User.findById(decoded.id);                                *)
(*   if (!user || user.role !== "seller") 403                               *)
(* Gives the status the first stretch answers with, 0 when it goes on.      *)

\* Variant: the gate without the role comparison.
sellerGateNoRole(c) ==
    IF c = NoCookie THEN 401
    ELSE IF ~jwtVerify(c) THEN 500
    ELSE IF UserById(c.id) = {} THEN 403
    ELSE 0

\* Variant: the gate decides on the role carried by the token.
sellerGateTokenRole(c) ==
    IF c = NoCookie THEN 401
    ELSE IF ~jwtVerify(c) THEN 500
    ELSE IF UserById(c.id) = {} THEN 403
    ELSE IF c.role # "seller" THEN 403
    ELSE 0

sellerGate(c) ==
    IF c = NoCookie THEN 401
    ELSE IF ~jwtVerify(c) THEN 500
    ELSE IF UserById(c.id) = {} THEN 403
    ELSE IF \E u \in UserById(c.id) : u.role # "seller" THEN 403
    ELSE 0

\* First stretch of a seller-scoped route: answer, or go on to pc.
Gate(op, c, file, pid, pc) ==
    /\ Ready
    /\ HasRoom
    /\ IF sellerGate(c) # 0
       THEN /\ reqs' = reqs
            /\ res' = [Response(op, sellerGate(c), CredOf(c),
                                IF jwtVerify(c) THEN c.id ELSE NoId)
                         EXCEPT !.pid = pid]
       ELSE Enter([Idle EXCEPT !.op = op, !.pc = pc, !.file = file,
                               !.userId = c.id, !.pid = pid])

\* seller = await Seller.findOne({userId: user._id}); if (!seller) 404
FindSeller(s, op, pc) ==
    /\ At(s, op, "findSeller")
    /\ IF SellersByUser(s.userId) = {}
       THEN Answer(s, [Response(op, 404, "valid", s.userId) EXCEPT !.pid = s.pid])
       ELSE \E seller \in SellersByUser(s.userId) :
              Await(s, [s EXCEPT !.pc = pc, !.sellerId = seller.id])

-----------------------------------------------------------------------------
(* GET /seller/me *)

SellerMe(c) ==
    /\ Gate("sellerMe", c, FALSE, NoId, "findSeller")
    /\ UNCHANGED <<rev, stores, nextPid, issued, cloudinary>>

SellerMeFindSeller(s) ==
    /\ At(s, "sellerMe", "findSeller")
    /\ UNCHANGED <<rev, stores, nextPid, issued, cloudinary>>
    /\ IF SellersByUser(s.userId) = {}
       THEN Answer(s, Response("sellerMe", 404, "valid", s.userId))
       ELSE \E seller \in SellersByUser(s.userId) :
              Answer(s, [Response("sellerMe", 200, "valid", s.userId) EXCEPT
                            !.sellerId = seller.id, !.doc = seller.id])

-----------------------------------------------------------------------------
(* Product fields *)

CastError == "CastError"

\* Mongoose's cast of a value assigned to a Number path.  Body values arrive
\* as strings; a stored number n is written "#n".
castNumber(v) ==
    CASE v = "10" -> "#10"
      [] v = "010" -> "#10"
      [] v = "" -> Null
      [] v = "abc" -> CastError
      [] OTHER -> v

\* Bodies sent in the specification of the access rules: two that differ in
\* the fields they supply, and one whose price is no number.
ProductBodies ==
    {[EmptyBody EXCEPT !.brand = "Acme", !.price = "10"],
     [EmptyBody EXCEPT !.brand = "Bolt"],
     [EmptyBody EXCEPT !.price = "abc"]}

\* Bodies of the updates in the specification with files: also a price
\* written with a leading zero, empty strings, and a body that supplies
\* nothing.
FormBodies ==
    ProductBodies
    \cup {[EmptyBody EXCEPT !.price = "010"],
          [EmptyBody EXCEPT !.brand = "", !.price = ""],
          EmptyBody}

\* `x = null` in a destructuring pattern: the default applies to undefined only.
orDefault(v, d) == IF v = Undefined THEN d ELSE v

\* The document Product.create is given by POST /product/add.
newProductDoc(id, userId, seller, body, file) ==
    IF rev = 2
    THEN [id |-> id, sellerId |-> seller.id, shopId |-> seller.id,
          shopName |-> seller.shopName, shopType |-> seller.shopType,
          brand |-> orDefault(body.brand, Null),
          model |-> orDefault(body.model, Null),
          productType |-> orDefault(body.productType, Null),
          color |-> orDefault(body.color, Null),
          storage |-> orDefault(body.storage, Null),
          ram |-> orDefault(body.ram, Null),
          price |-> castNumber(orDefault(body.price, Null)),
          image |-> IF file THEN ImagePath ELSE Null]
    ELSE [id |-> id, sellerId |-> userId, shopId |-> seller.id,
          shopName |-> seller.shopName, shopType |-> seller.shopType,
          brand |-> body.brand, model |-> body.model,
          productType |-> Undefined,      \* not in the schema of revision 1
          color |-> body.color, storage |-> body.storage, ram |-> body.ram,
          price |-> castNumber(body.price),
          image |-> IF file THEN ImagePath ELSE Null]

\* A JavaScript string is truthy unless it is empty.
truthy(v) == v # Undefined /\ v # "" /\ v # Null

\* The value PUT /product/update/:id assigns to a field: the old value when
\* the body does not supply it (revision 1: when the supplied value is falsy).
\* Variant: the body's value is assigned as it is; an absent one clears the
\* field.
assignedNoDefault(old, v) == IF v = Undefined THEN Null ELSE v

assigned(old, v) ==
    IF rev = 2 THEN orDefault(v, old)
    ELSE IF truthy(v) THEN v ELSE old

\* The paths product.save() writes: those whose assigned value differs from
\* the loaded one; Undefined marks a path left alone.
changed(old, new) == IF new = old THEN Undefined ELSE new

patchOf(product, body, file) ==
    [brand |-> changed(product.brand, assigned(product.brand, body.brand)),
     model |-> changed(product.model, assigned(product.model, body.model)),
     productType |-> IF rev = 2
                     THEN changed(product.productType,
                                  assigned(product.productType, body.productType))
                     ELSE Undefined,
     color |-> changed(product.color, assigned(product.color, body.color)),
     storage |-> changed(product.storage, assigned(product.storage, body.storage)),
     ram |-> changed(product.ram, assigned(product.ram, body.ram)),
     price |-> changed(product.price, castNumber(assigned(product.price, body.price))),
     image |-> IF file THEN changed(product.image, ImagePath) ELSE Undefined]

\* updateOne({_id}, {$set: modified paths})
applyPatch(product, patch) ==
    [product EXCEPT
       !.brand = orDefault(patch.brand, @), !.model = orDefault(patch.model, @),
       !.productType = orDefault(patch.productType, @),
       !.color = orDefault(patch.color, @), !.storage = orDefault(patch.storage, @),
       !.ram = orDefault(patch.ram, @), !.price = orDefault(patch.price, @),
       !.image = orDefault(patch.image, @)]

\* .sort({_id: -1}): newest first
RECURSIVE sortDesc(_)
sortDesc(S) ==
    IF S = {} THEN <<>>
    ELSE LET newest == CHOOSE p \in S : \A q \in S : q.id[4] <= p.id[4]
         IN <<newest>> \o sortDesc(S \ {newest})

\* The :id values a client can send
Pids == {ProductId(n) : n \in 1..MaxProducts} \cup {BadId}

-----------------------------------------------------------------------------
(* POST /product/add *)

AddProduct(c, file) ==
    /\ upload(file)
    /\ Gate("add", c, file, NoId, "findSeller")
    /\ UNCHANGED <<rev, stores, nextPid, issued>>

AddFindSeller(s) ==
    /\ FindSeller(s, "add", "create")
    /\ UNCHANGED <<rev, stores, nextPid, issued, cloudinary>>

\* Product.create({...}); a price that is no number makes it throw (500).
AddCreate(s, body) ==
    /\ At(s, "add", "create")
    /\ UNCHANGED <<rev, OAuthUsers, Sellers, issued, cloudinary>>
    /\ \E seller \in {x \in Sellers : x.id = s.sellerId} :
         LET doc == newProductDoc(ProductId(nextPid + 1), s.userId, seller,
                                  body, s.file)
         IN IF doc.price = CastError
            THEN /\ UNCHANGED <<AllProducts, nextPid>>
                 /\ Answer(s, [Response("add", 500, "valid", s.userId) EXCEPT
                                  !.sellerId = seller.id])
            ELSE /\ nextPid < MaxProducts
                 /\ AllProducts' = AllProducts \cup {doc}
                 /\ nextPid' = nextPid + 1
                 /\ Answer(s, [Response("add", 200, "valid", s.userId) EXCEPT
                                  !.sellerId = seller.id, !.pid = doc.id,
                                  !.doc = doc.id])

-----------------------------------------------------------------------------
(* GET /products *)

\* userRole of the listing: decoded.role || "customer" for a token that
\* verifies, "customer" otherwise.  Revision 1 sends no userRole.
\* Variant: the role is read from the payload without verifying the token.
listingRoleUnverified(c) ==
    IF rev # 2 THEN Undefined
    ELSE IF c # NoCookie /\ c.role # Undefined THEN c.role
    ELSE "customer"

\* Variant: every caller is listed as a customer.
listingRoleAnonymous(c) == IF rev # 2 THEN Undefined ELSE "customer"

listingRole(c) ==
    IF rev # 2 THEN Undefined
    ELSE IF c # NoCookie /\ jwtVerify(c) /\ c.role # Undefined THEN c.role
    ELSE "customer"

Products(c) ==
    /\ Ready
    /\ HasRoom
    /\ res' = [Response("products", 200, CredOf(c), IF jwtVerify(c) THEN c.id ELSE NoId)
                 EXCEPT !.tokenRole = IF jwtVerify(c) THEN c.role ELSE Undefined,
                        !.userRole = listingRole(c),
                        !.products = sortDesc(AllProducts)]
    /\ UNCHANGED <<rev, stores, nextPid, issued, cloudinary, reqs>>

-----------------------------------------------------------------------------
(* GET /products/my *)

MyProducts(c) ==
    /\ Gate("my", c, FALSE, NoId, "findSeller")
    /\ UNCHANGED <<rev, stores, nextPid, issued, cloudinary>>

MyFindSeller(s) ==
    /\ FindSeller(s, "my", "find")
    /\ UNCHANGED <<rev, stores, nextPid, issued, cloudinary>>

\* Product.find({sellerId}).sort({_id: -1})
MyFind(s) ==
    /\ At(s, "my", "find")
    /\ LET owner == IF rev = 2 THEN s.sellerId ELSE s.userId
       IN Answer(s, [Response("my", 200, "valid", s.userId) EXCEPT
                        !.sellerId = s.sellerId,
                        !.products = sortDesc({p \in AllProducts : p.sellerId = owner})])
    /\ UNCHANGED <<rev, stores, nextPid, issued, cloudinary>>

-----------------------------------------------------------------------------
(* Ownership: product.sellerId.equals(seller._id) in revision 2,            *)
(* product.sellerId.equals(user._id) in revision 1.                         *)

ownerId(r) == IF rev = 2 THEN r.sellerId ELSE r.userId

\* Variant: no ownership comparison.
ownsAny(r, product) == product.sellerId = product.sellerId

owns(r, product) == product.sellerId = ownerId(r)

\* product = await Product.findById(req.params.id): the status the stretch
\* answers with, 0 when the product is found and owned.
\*   an :id that is no ObjectId makes findById throw (500);
\*   if (!product) 404; if (!product.sellerId.equals(...)) 403
\* Variant: the ownership comparison comes first and treats a missing product
\* as one the caller does not own.
productGateOwnerFirst(r, pid) ==
    IF pid = BadId THEN 500
    ELSE IF ~(\E p \in ProductById(pid) : p.sellerId = ownerId(r)) THEN 403
    ELSE 0

productGate(r, pid) ==
    IF pid = BadId THEN 500
    ELSE IF ProductById(pid) = {} THEN 404
    ELSE IF \E p \in ProductById(pid) : ~owns(r, p) THEN 403
    ELSE 0

-----------------------------------------------------------------------------
(* PUT /product/update/:id *)

Update(c, file, pid) ==
    /\ upload(file)
    /\ Gate("update", c, file, pid, IF rev = 2 THEN "findSeller" ELSE "findProduct")
    /\ UNCHANGED <<rev, stores, nextPid, issued>>

UpdateFindSeller(s) ==
    /\ FindSeller(s, "update", "findProduct")
    /\ UNCHANGED <<rev, stores, nextPid, issued, cloudinary>>

\* Product.findById, the ownership check and the assignments.  save()
\* validates first: a price that is no number rejects it (500) before the
\* store is touched, and with no modified path it writes nothing.
UpdateFindProduct(s, body) ==
    /\ At(s, "update", "findProduct")
    /\ UNCHANGED <<rev, stores, nextPid, issued, cloudinary>>
    /\   LET r == s
             pid == s.pid
             answer(status) ==
                 [Response("update", status, "valid", r.userId) EXCEPT
                     !.sellerId = r.sellerId, !.pid = pid]
         IN IF productGate(r, pid) # 0
            THEN Answer(s, answer(productGate(r, pid)))
            ELSE \E product \in ProductById(pid) :
                   LET patch == patchOf(product, body, r.file)
                   IN IF patch.price = CastError THEN Answer(s, answer(500))
                      ELSE IF patch = NoPatch
                      THEN Answer(s, [answer(200) EXCEPT !.doc = pid])
                      ELSE Await(s, [r EXCEPT !.pc = "save", !.body = body,
                                              !.patch = patch])

\* await product.save(): writes the modified paths of the document; it
\* throws DocumentNotFoundError (500) when the document is gone.
UpdateSave(s) ==
    /\ At(s, "update", "save")
    /\ UNCHANGED <<rev, OAuthUsers, Sellers, nextPid, issued, cloudinary>>
    /\ LET r == s
           answer(status) ==
               [Response("update", status, "valid", r.userId) EXCEPT
                   !.sellerId = r.sellerId, !.pid = r.pid]
       IN IF ProductById(r.pid) = {}
          THEN /\ AllProducts' = AllProducts
               /\ Answer(s, answer(500))
          ELSE /\ AllProducts' = {IF p.id = r.pid THEN applyPatch(p, r.patch) ELSE p :
                                     p \in AllProducts}
               /\ Answer(s, [answer(200) EXCEPT !.doc = r.pid])

-----------------------------------------------------------------------------
(* DELETE /product/delete/:id *)

Delete(c, pid) ==
    /\ Gate("delete", c, FALSE, pid, IF rev = 2 THEN "findSeller" ELSE "findProduct")
    /\ UNCHANGED <<rev, stores, nextPid, issued, cloudinary>>

DeleteFindSeller(s) ==
    /\ FindSeller(s, "delete", "findProduct")
    /\ UNCHANGED <<rev, stores, nextPid, issued, cloudinary>>

DeleteFindProduct(s) ==
    /\ At(s, "delete", "findProduct")
    /\ UNCHANGED <<rev, stores, nextPid, issued, cloudinary>>
    /\   LET r == s
             pid == s.pid
         IN IF productGate(r, pid) # 0
            THEN Answer(s, [Response("delete", productGate(r, pid), "valid", r.userId)
                              EXCEPT !.sellerId = r.sellerId, !.pid = pid])
            ELSE Await(s, [r EXCEPT !.pc = "delete"])

\* await Product.findByIdAndDelete(req.params.id); 200 whether or not the
\* document was still there
DeleteRemove(s) ==
    /\ At(s, "delete", "delete")
    /\ AllProducts' = {p \in AllProducts : p.id # s.pid}
    /\ Answer(s, [Response("delete", 200, "valid", s.userId) EXCEPT
                     !.sellerId = s.sellerId, !.pid = s.pid])
    /\ UNCHANGED <<rev, OAuthUsers, Sellers, nextPid, issued, cloudinary>>

-----------------------------------------------------------------------------
(* The response has been written; the event loop turns to the next event. *)

Sent ==
    /\ res # NoResponse
    /\ res' = NoResponse
    /\ UNCHANGED <<rev, stores, nextPid, issued, cloudinary, reqs>>

-----------------------------------------------------------------------------
(* Specification of revision 2: the access rules under two concurrent      *)
(* requests.  Clients send no files here.                                   *)

Next ==
    \/ \E g \in GoogleIds : Login(g)
    \/ \E s \in InFlight : LoginCreate(s)
    \/ Logout
    \/ \E c \in Cookies : Profile(c)
    \/ \E c \in Cookies : Register(c, FALSE)
    \/ \E s \in InFlight : RegisterFindSeller(s)
    \/ \E s \in InFlight, body \in RegisterBodies : RegisterCreate(s, body)
    \/ \E s \in InFlight : RegisterSave(s)
    \/ \E c \in Cookies : SellerMe(c)
    \/ \E s \in InFlight : SellerMeFindSeller(s)
    \/ \E c \in Cookies : AddProduct(c, FALSE)
    \/ \E s \in InFlight : AddFindSeller(s)
    \/ \E s \in InFlight, body \in ProductBodies : AddCreate(s, body)
    \/ \E c \in Cookies : Products(c)
    \/ \E c \in Cookies : MyProducts(c)
    \/ \E s \in InFlight : MyFindSeller(s)
    \/ \E s \in InFlight : MyFind(s)
    \/ \E c \in Cookies, pid \in Pids : Update(c, FALSE, pid)
    \/ \E s \in InFlight : UpdateFindSeller(s)
    \/ \E s \in InFlight, body \in ProductBodies : UpdateFindProduct(s, body)
    \/ \E s \in InFlight : UpdateSave(s)
    \/ \E c \in Cookies, pid \in Pids : Delete(c, pid)
    \/ \E s \in InFlight : DeleteFindSeller(s)
    \/ \E s \in InFlight : DeleteFindProduct(s)
    \/ \E s \in InFlight : DeleteRemove(s)
    \/ Sent

Spec == Init /\ [][Next]_vars

\* Either revision of the file: lines 1-370 or lines 372-795.
Revisions == {1, 2}
InitAny == \E r \in Revisions : InitRev(r)
SpecAny == InitAny /\ [][Next]_vars

\* One Google account.
Uploader == "g1"

\* Revision 2 serving one account whose registration, add and update
\* requests may carry a file.
NextFiles ==
    \/ Login(Uploader)
    \/ \E s \in InFlight : LoginCreate(s)
    \/ \E c \in Cookies, file \in BOOLEAN : Register(c, file)
    \/ \E s \in InFlight : RegisterFindSeller(s)
    \/ \E s \in InFlight : RegisterCreate(s, ShopForm)
    \/ \E s \in InFlight : RegisterSave(s)
    \/ \E c \in Cookies, file \in BOOLEAN : AddProduct(c, file)
    \/ \E s \in InFlight : AddFindSeller(s)
    \/ \E s \in InFlight, body \in ProductBodies : AddCreate(s, body)
    \/ \E c \in Cookies, file \in BOOLEAN, pid \in Pids : Update(c, file, pid)
    \/ \E s \in InFlight : UpdateFindSeller(s)
    \/ \E s \in InFlight, body \in ProductBodies : UpdateFindProduct(s, body)
    \/ \E s \in InFlight : UpdateSave(s)
    \/ Sent

SpecFiles == Init /\ [][NextFiles]_vars

\* Either revision serving one account that adds a product and updates it
\* with the wider set of bodies, with or without a new image.
NextForms ==
    \/ Login(Uploader)
    \/ \E s \in InFlight : LoginCreate(s)
    \/ \E c \in Cookies : Register(c, FALSE)
    \/ \E s \in InFlight : RegisterFindSeller(s)
    \/ \E s \in InFlight : RegisterCreate(s, ShopForm)
    \/ \E s \in InFlight : RegisterSave(s)
    \/ \E c \in Cookies : AddProduct(c, FALSE)
    \/ \E s \in InFlight : AddFindSeller(s)
    \/ \E s \in InFlight, body \in ProductBodies : AddCreate(s, body)
    \/ \E c \in Cookies, file \in BOOLEAN, pid \in Pids : Update(c, file, pid)
    \/ \E s \in InFlight : UpdateFindSeller(s)
    \/ \E s \in InFlight, body \in FormBodies : UpdateFindProduct(s, body)
    \/ \E s \in InFlight : UpdateSave(s)
    \/ Sent

SpecForms == InitAny /\ [][NextForms]_vars

-----------------------------------------------------------------------------
(* Vocabulary of the properties *)

\* Routes that answer 401/403 by identity, and those behind the seller gate.
SellerOps == {"sellerMe", "add", "my", "update", "delete"}
IdentityOps == {"profile", "register"} \cup SellerOps

\* user.role as stored now, Undefined when the user is not in the store.
StoredRole(uid) ==
    IF UserById(uid) = {} THEN Undefined ELSE (CHOOSE u \in UserById(uid) : TRUE).role

\* The in-flight request s ran its next stretch in this step.
Took(s) == CopiesIn(s, reqs') < CopiesIn(s, reqs)

\* The fields of a product that req.body can supply.
BodyFields == {"brand", "model", "productType", "color", "storage", "ram", "price"}

-----------------------------------------------------------------------------
\* C1: in either revision a product is never changed or removed by a request
\* whose owner identity (the resolved Seller's id in revision 2, the user's id
\* in revision 1, which stores it as sellerId) differs from the product's
\* sellerId: the step that changes or removes a product is taken by an
\* update/delete request of its owner, and an update/delete answered for a
\* product of another owner is answered 403 with the catalog unchanged.
C1_OnlyOwnerChangesProduct ==
    [][ /\ \A p \in AllProducts :
             p \notin AllProducts' =>
               \E s \in InFlight : /\ Took(s)
                                   /\ s.op \in {"update", "delete"}
                                   /\ s.pid = p.id
                                   /\ ownerId(s) = p.sellerId
        /\ ( /\ res'.op \in {"update", "delete"}
             /\ ownerId(res') # NoId
             /\ \E p \in AllProducts : p.id = res'.pid /\ p.sellerId # ownerId(res') )
           => (res'.status = 403 /\ AllProducts' = AllProducts)
      ]_vars

C1_ForeignUpdateRefused ==
    /\ res.op = "update"
    /\ res.status = 403
    /\ res.cred = "valid"
    /\ StoredRole(res.userId) = "seller"
    /\ \E p \in AllProducts : p.id = res.pid /\ p.sellerId # ownerId(res)

\* C2: once a Seller record exists for a user (whether or not the role has
\* been promoted yet), every registration of that user reaching the existence
\* check is answered 400 and creates nothing; a registration answered 200
\* leaves the Seller record and the promoted role behind, and Seller records
\* are never removed.
C2_SecondRegistrationConflict ==
    [][ /\ \A s \in InFlight :
             ( /\ Took(s)
               /\ s.op = "register"
               /\ s.pc = "findSeller"
               /\ (StoredRole(s.userId) = "seller"
                   \/ \E x \in Sellers : x.userId = s.userId) )
             => ( /\ res'.op = "register"
                  /\ res'.status = 400
                  /\ res'.userId = s.userId
                  /\ UNCHANGED stores )
        /\ (res'.op = "register" /\ res'.status = 200)
           => ( /\ \E x \in Sellers' : x.userId = res'.userId
                /\ \E u \in OAuthUsers' : u.id = res'.userId /\ u.role = "seller" )
        /\ Sellers \subseteq Sellers'
      ]_vars

C2_ConflictAfterSuccess ==
    /\ res.op = "register"
    /\ res.status = 400
    /\ StoredRole(res.userId) = "seller"
    /\ Cardinality({x \in Sellers : x.userId = res.userId}) = 1

\* C3 as stated: no user ever has more than one Seller record.
C3_OneSellerPerUser ==
    \A u \in OAuthUsers : Cardinality({x \in Sellers : x.userId = u.id}) <= 1

\* C4 as stated: a credential that fails verification is answered 401 by every
\* operation that requires identity.
C4_InvalidCredentialUnauthorized ==
    (res.op \in IdentityOps /\ res.cred = "invalid") => res.status = 401

\* C5 as stated: a credential that verifies but whose subject is not in the
\* user store is answered 401 by every operation that requires identity.
C5_UnknownSubjectUnauthorized ==
    (res.op \in IdentityOps /\ res.cred = "valid" /\ UserById(res.userId) = {})
    => res.status = 401

\* C6 as stated: DELETE of a well-formed id that is not in the catalog, sent
\* with a valid credential of an existing user, is answered 404.
C6_MissingProductNotFound ==
    ( /\ res.op = "delete"
      /\ res.status # 200
      /\ res.cred = "valid"
      /\ UserById(res.userId) # {}
      /\ res.pid # BadId
      /\ ProductById(res.pid) = {} )
    => res.status = 404

\* C6 amended: the same for a user whose stored role is seller; the role gate
\* answers everybody else 403 before any lookup.
C6_SellerMissingProductNotFound ==
    ( /\ res.op = "delete"
      /\ res.status # 200
      /\ res.cred = "valid"
      /\ StoredRole(res.userId) = "seller"
      /\ res.pid # BadId
      /\ ProductById(res.pid) = {} )
    => res.status = 404

C6_SellerDeletesUnknownId ==
    /\ res.op = "delete"
    /\ res.status = 404
    /\ res.cred = "valid"
    /\ StoredRole(res.userId) = "seller"
    /\ res.sellerId # NoId
    /\ res.pid # BadId
    /\ ProductById(res.pid) = {}

\* C7: a seller-scoped request carrying a valid credential of an existing user
\* whose stored role is not seller is answered 403 and changes no store, and
\* no seller-scoped request of such a user ever changes a store.
C7_NonSellerForbidden ==
    [][ /\ ( /\ res'.op \in SellerOps
             /\ res'.cred = "valid"
             /\ \E u \in OAuthUsers : u.id = res'.userId /\ u.role # "seller" )
           => (res'.status = 403 /\ UNCHANGED stores)
        /\ \A s \in InFlight :
             (Took(s) /\ s.op \in SellerOps /\ StoredRole(s.userId) # "seller")
             => UNCHANGED stores
      ]_vars

C7_CustomerRefused ==
    /\ res.op = "add"
    /\ res.status = 403
    /\ res.cred = "valid"
    /\ StoredRole(res.userId) = "customer"
    /\ Sellers # {}

C9_SellerUserListedAsSeller ==
    (res.op = "products" /\ res.cred = "valid" /\ StoredRole(res.userId) = "seller")
    => res.userRole = "seller"

\* C9 amended: GET /products with a valid credential that carries the role
\* seller (issued after the promotion) is answered with userRole seller, and
\* such a credential belongs to a user whose stored role is seller.
C9_SellerTokenListedAsSeller ==
    (res.op = "products" /\ res.cred = "valid" /\ res.tokenRole = "seller")
    => (res.status = 200 /\ res.userRole = "seller" /\ StoredRole(res.userId) = "seller")

C9_SellerTokenListing ==
    /\ res.op = "products"
    /\ res.cred = "valid"
    /\ res.tokenRole = "seller"
    /\ res.userRole = "seller"

\* C10: a token carries the role stored when it was signed; GET /products
\* reports the role of the token, and the seller gate decides on the stored
\* role, so a promoted user holding a customer token is listed as customer
\* and is still let through the gate.
C10_TokenRoleIsSnapshot ==
    /\ (res.op = "login") => res.userRole = StoredRole(res.userId)
    /\ (res.op = "products" /\ res.cred = "valid") => res.userRole = res.tokenRole
    /\ \A p \in issued : p.role = "seller" => StoredRole(p.id) = "seller"
    /\ ( /\ res.op \in SellerOps
         /\ res.cred = "valid"
         /\ res.sellerId = NoId
         /\ res.status = 403 )
       => StoredRole(res.userId) # "seller"
    /\ \A s \in InFlight : s.op \in SellerOps => StoredRole(s.userId) = "seller"

C10_StaleTokenAfterPromotion ==
    /\ res.op = "products"
    /\ res.cred = "valid"
    /\ res.tokenRole = "customer"
    /\ res.userRole = "customer"
    /\ StoredRole(res.userId) = "seller"
    /\ [id |-> res.userId, role |-> "seller"] \notin issued
    /\ \E p \in AllProducts, x \in Sellers : p.sellerId = x.id /\ x.userId = res.userId

C12_OneUserPerGoogleId ==
    /\ \A g \in GoogleIds : Cardinality(UsersByGoogleId(g)) <= 1
    /\ res.op = "login" => \E u \in OAuthUsers : u.id = res.userId

\* C13 as stated: in every state, which another request may observe, a Seller
\* record exists for a user exactly when the user's stored role is seller,
\* and no registration is answered with an error while a Seller record of
\* its user is left without the promoted role.
C13_SellerIffRoleSeller ==
    /\ \A u \in OAuthUsers : (SellersByUser(u.id) # {}) <=> (u.role = "seller")
    /\ (res.op = "register" /\ res.status >= 400 /\ res.userId # NoId)
       => ((SellersByUser(res.userId) # {}) <=> (StoredRole(res.userId) = "seller"))

\* C14 as stated: an image is stored on Cloudinary only by a request that has
\* passed the credential, user and role checks, and a registration, add or
\* update answered 400, 401, 403 or 404 stores no image.
C14_UploadOnlyAfterChecks ==
    [][ /\ cloudinary' # cloudinary
           => \E s \in InFlight :
                /\ Took(s)
                /\ s.file
                /\ s.op \in {"register", "add", "update"}
                /\ s.pc \in {"create", "findProduct", "save"}
        /\ ( /\ res'.op \in {"register", "add", "update"}
             /\ res'.status \in {400, 401, 403, 404} )
           => cloudinary' = cloudinary
      ]_vars

\* C15 as stated: every product's sellerId is the id of an existing Seller
\* record, and GET /products/my answers a user with exactly the products
\* whose sellerId is the id of a Seller record of that user.
C15_ProductReferencesSeller ==
    /\ \A p \in AllProducts : \E x \in Sellers : x.id = p.sellerId
    /\ (res.op = "my" /\ res.status = 200)
       => {res.products[i] : i \in 1..Len(res.products)}
            = {p \in AllProducts :
                 \E x \in Sellers : x.userId = res.userId /\ x.id = p.sellerId}

====
